---- MODULE Spec2Model ----
(***************************************************************************)
(* Model of quote-Telegram-Bot.py: the Prefect flow main_flow runs the     *)
(* task generate_quote (retries=3, retry_delay_seconds=5) and hands its    *)
(* result to the task to_telegram (no retries).                            *)
(*                                                                         *)
(* Texts whose content the code inspects (error texts, the response        *)
(* content) are sequences of one-character strings, so that lower(), the   *)
(* substring test "in" and strip() are computed.  The fixed messages of    *)
(* the program are TLA+ strings; their leading emoji is left out because   *)
(* the module is ASCII.  An optional value (None or a value) is a sequence *)
(* of length 0 or 1.                                                       *)
(***************************************************************************)
EXTENDS Naturals, Sequences, FiniteSets

VARIABLES
    TELEGRAM_TOKEN,    \* os.getenv("TELEGRAM_TOKEN"): <<>> is None, <<s>> the value s
    TELEGRAM_CHAT_ID,  \* os.getenv("TELEGRAM_CHAT_ID")
    pc,                \* position of the run: "generate_quote", "retry_wait", "to_telegram", "done"
    attempts,          \* number of executions of generate_quote so far
    delays,            \* the delays the harness slept before each re-attempt
    response,          \* optional: response.content of the successful llm.invoke
    returned,          \* optional: the value returned by the successful generate_quote
    tg_args,           \* the arguments to_telegram was invoked with, in order
    bot_sessions,      \* number of Bot(token=...) sessions opened
    send_attempts,     \* number of bot.sendMessage calls made
    sent,              \* messages delivered to the chat
    out,               \* lines printed by the current (most recent) task execution
    caught,            \* optional: the exception caught by its except block
    raised,            \* optional: the exception it raised
    flow_state         \* state of the flow run: "Running", "Completed", "Failed"

vars == <<TELEGRAM_TOKEN, TELEGRAM_CHAT_ID, pc, attempts, delays, response, returned, tg_args,
          bot_sessions, send_attempts, sent, out, caught, raised, flow_state>>

(***************************************************************************)
(* Bounds of the model.                                                    *)
(***************************************************************************)
MaxFrags == 2        \* an error text is made of at most this many fragments
MaxContentLen == 2   \* a response content has at most this many characters

(***************************************************************************)
(* Program constants.                                                      *)
(***************************************************************************)
Retries == 3
RetryDelaySeconds == 5

(***************************************************************************)
(* Python string operations.                                               *)
(***************************************************************************)
UpperCase == <<"A","B","C","D","E","F","G","H","I","J","K","L","M",
               "N","O","P","Q","R","S","T","U","V","W","X","Y","Z">>
LowerCase == <<"a","b","c","d","e","f","g","h","i","j","k","l","m",
               "n","o","p","q","r","s","t","u","v","w","x","y","z">>

lower_char(c) ==
    IF \E i \in 1..Len(UpperCase) : UpperCase[i] = c
    THEN LowerCase[CHOOSE i \in 1..Len(UpperCase) : UpperCase[i] = c]
    ELSE c

\* str.lower()
lower(s) == [i \in 1..Len(s) |-> lower_char(s[i])]

\* sub in s
In(sub, s) ==
    \E i \in 0..Len(s) :
        /\ i + Len(sub) <= Len(s)
        /\ SubSeq(s, i + 1, i + Len(sub)) = sub

Whitespace == {" ", "\n", "\t"}

\* str.strip(), for stating the trimmed-text property
RECURSIVE lstrip(_)
lstrip(s) == IF s # <<>> /\ Head(s) \in Whitespace THEN lstrip(Tail(s)) ELSE s
RECURSIVE rstrip(_)
rstrip(s) ==
    IF s # <<>> /\ s[Len(s)] \in Whitespace THEN rstrip(SubSeq(s, 1, Len(s) - 1)) ELSE s
strip(s) == rstrip(lstrip(s))

\* truthiness of an optional string: None and "" are falsy
Falsy(v) == IF Len(v) = 0 THEN TRUE ELSE v[1] = ""

(***************************************************************************)
(* The words the two except blocks look for.                               *)
(***************************************************************************)
kw_401 == <<"4","0","1">>
kw_api_key == <<"a","p","i","_","k","e","y">>
kw_429 == <<"4","2","9">>
kw_quota == <<"q","u","o","t","a">>
kw_connection == <<"c","o","n","n","e","c","t","i","o","n">>
kw_dns == <<"d","n","s">>
kw_timeout == <<"t","i","m","e","o","u","t">>
kw_ssl == <<"s","s","l">>

(***************************************************************************)
(* The fixed messages.                                                     *)
(***************************************************************************)
GeminiAuthMsg == "Gemini Auth Error: Invalid API Key."
GeminiQuotaMsg == "Gemini Quota Error: Rate limit exceeded."
GeminiNetworkMsg == "Gemini Network Error: Failed to connect."
GeminiInternalMsg == "Gemini Internal Error (Details hidden)."
GeminiMsgs == {GeminiAuthMsg, GeminiQuotaMsg, GeminiNetworkMsg, GeminiInternalMsg}

TelegramNetworkMsg == "Network Error: Failed to connect to Telegram API."
TelegramTimeoutMsg == "Timeout Error: Telegram API did not respond."
TelegramSSLMsg == "SSL Error: Certificate verification failed."
TelegramUnknownMsg == "Telegram Send Failed: Unknown error occurred."
TelegramMsgs == {TelegramNetworkMsg, TelegramTimeoutMsg, TelegramSSLMsg, TelegramUnknownMsg}

MissingCredentialsMsg == "Missing Telegram Credentials"

\* print(text): a line with no interpolated value
Line(text) == [lit |-> text, arg |-> <<>>]
\* print(f"...{value}"): a line that interpolates a text
FLine(text, value) == [lit |-> text, arg |-> value]

(***************************************************************************)
(* Inputs: what the two backends can answer.                               *)
(***************************************************************************)
RECURSIVE Concats(_, _)
\* the texts made of at most n fragments of frags
Concats(frags, n) ==
    IF n = 0 THEN {<<>>}
    ELSE LET shorter == Concats(frags, n - 1)
         IN  shorter \cup {t \o f : t \in shorter, f \in frags}

frag_neutral == <<"o","o","p","s">>

\* str(e) of an exception raised inside generate_quote's try block
GeminiFrags ==
    { kw_401, <<"A","P","I","_","K","E","Y">>, kw_429, <<"Q","u","o","t","a">>,
      <<"C","o","n","n","e","c","t","i","o","n">>, frag_neutral }
GeminiErrorTexts == Concats(GeminiFrags, MaxFrags)

\* str(e) of an exception raised by asyncio.run(send_via_ptb())
TelegramFrags ==
    { <<"C","o","n","n","e","c","t","i","o","n">>, <<"D","N","S">>,
      <<"T","i","m","e","o","u","t">>, <<"S","S","L">>, frag_neutral }
TelegramErrorTexts == Concats(TelegramFrags, MaxFrags)

CodeFearlessly ==
    <<"C","o","d","e"," ","f","e","a","r","l","e","s","s","l","y",".">>

ContentChars == {" ", "\n", "Q"}
\* response.content of a successful llm.invoke
Contents ==
    UNION {[1..n -> ContentChars] : n \in 0..MaxContentLen} \cup {CodeFearlessly}

EnvValues == {<<>>, <<"">>, <<"set">>}

(***************************************************************************)
(* generate_quote                                                          *)
(***************************************************************************)
\* faulty variant: the quota test comes before the authentication test
generate_quote_safe_msg_quota_first(e_str) ==
    LET error_str == lower(e_str)
    IN  IF In(kw_429, error_str) \/ In(kw_quota, error_str) THEN GeminiQuotaMsg
        ELSE IF In(kw_401, error_str) \/ In(kw_api_key, error_str) THEN GeminiAuthMsg
        ELSE IF In(kw_connection, error_str) THEN GeminiNetworkMsg
        ELSE GeminiInternalMsg

\* faulty variant: the word "quota" is not looked for
generate_quote_safe_msg_no_quota(e_str) ==
    LET error_str == lower(e_str)
    IN  IF In(kw_401, error_str) \/ In(kw_api_key, error_str) THEN GeminiAuthMsg
        ELSE IF In(kw_429, error_str) THEN GeminiQuotaMsg
        ELSE IF In(kw_connection, error_str) THEN GeminiNetworkMsg
        ELSE GeminiInternalMsg

\* the except block's choice of safe_msg from str(e)
generate_quote_safe_msg(e_str) ==
    LET error_str == lower(e_str)
    IN  IF In(kw_401, error_str) \/ In(kw_api_key, error_str) THEN GeminiAuthMsg
        ELSE IF In(kw_429, error_str) \/ In(kw_quota, error_str) THEN GeminiQuotaMsg
        ELSE IF In(kw_connection, error_str) THEN GeminiNetworkMsg
        ELSE GeminiInternalMsg

\* faulty variant: the response text is trimmed before it is returned
generate_quote_return_stripped(ai_msg) == strip(ai_msg)

\* return ai_msg
generate_quote_return(ai_msg) == ai_msg

\* @task(retries=3): where the run goes after the n-th execution failed
after_generate_quote_failure(n) ==
    IF n <= Retries THEN "retry_wait" ELSE "done"

\* faulty variant: the delay grows with the number of the retry
retry_delay_backoff(k) == RetryDelaySeconds * k

\* @task(retry_delay_seconds=5): the delay before the k-th retry
retry_delay(k) == RetryDelaySeconds

\* faulty variant: the flow swallows the task's exception
main_flow_on_error_swallowed == "Completed"

\* main_flow catches nothing: an exception of a task fails the flow run
main_flow_on_error == "Failed"

\* faulty variant: the flow hands on a changed text
main_flow_arg_changed(quote) == lower(quote)

\* to_telegram(quote)
main_flow_arg(quote) == quote

generate_quote_returns(content) ==
    /\ pc = "generate_quote"
    /\ attempts' = attempts + 1
    /\ response' = <<content>>
    /\ LET ai_msg == content
       IN  /\ out' = << Line("ACTION TIME! Initiating connection to Gemini AI..."),
                        Line("------------------------------------------------"),
                        FLine("AI MENTOR SAYS:", ai_msg),
                        Line("------------------------------------------------") >>
           /\ returned' = <<generate_quote_return(ai_msg)>>
    /\ caught' = <<>>
    /\ raised' = <<>>
    /\ pc' = "to_telegram"
    /\ UNCHANGED <<TELEGRAM_TOKEN, TELEGRAM_CHAT_ID, delays, tg_args, bot_sessions,
                   send_attempts, sent, flow_state>>

generate_quote_raises(e_str) ==
    /\ pc = "generate_quote"
    /\ attempts' = attempts + 1
    /\ caught' = <<[task |-> "generate_quote", str |-> e_str]>>
    /\ LET safe_msg == generate_quote_safe_msg(e_str)
       IN  /\ out' = << Line("ACTION TIME! Initiating connection to Gemini AI..."),
                        Line(safe_msg) >>
           \* raise inside the except block: the new exception's __context__ is e
           /\ raised' = <<[type |-> "Exception", msg |-> safe_msg, context |-> <<e_str>>]>>
    /\ pc' = after_generate_quote_failure(attempts')
    /\ flow_state' = IF pc' = "done" THEN main_flow_on_error ELSE flow_state
    /\ UNCHANGED <<TELEGRAM_TOKEN, TELEGRAM_CHAT_ID, delays, response, returned, tg_args,
                   bot_sessions, send_attempts, sent>>

\* the harness has taken the exception of the failed execution, sleeps, and
\* starts a new execution of generate_quote, with nothing printed or caught yet
retry_wait ==
    /\ pc = "retry_wait"
    /\ delays' = Append(delays, retry_delay(Len(delays) + 1))
    /\ out' = <<>>
    /\ caught' = <<>>
    /\ raised' = <<>>
    /\ pc' = "generate_quote"
    /\ UNCHANGED <<TELEGRAM_TOKEN, TELEGRAM_CHAT_ID, attempts, response, returned, tg_args,
                   bot_sessions, send_attempts, sent, flow_state>>

(***************************************************************************)
(* to_telegram                                                             *)
(***************************************************************************)
\* faulty variant: "and" in place of "or" in the credential check
missing_credentials_both(token, chat_id) == Falsy(token) /\ Falsy(chat_id)

\* not TELEGRAM_TOKEN or not TELEGRAM_CHAT_ID
missing_credentials(token, chat_id) == Falsy(token) \/ Falsy(chat_id)

\* faulty variant: the timeout and SSL tests come before the connection test
to_telegram_safe_msg_timeout_first(e_str) ==
    LET error_str == lower(e_str)
    IN  IF In(kw_timeout, error_str) THEN TelegramTimeoutMsg
        ELSE IF In(kw_ssl, error_str) THEN TelegramSSLMsg
        ELSE IF In(kw_connection, error_str) \/ In(kw_dns, error_str) THEN TelegramNetworkMsg
        ELSE TelegramUnknownMsg

\* the except block's choice of safe_msg from str(e)
to_telegram_safe_msg(e_str) ==
    LET error_str == lower(e_str)
    IN  IF In(kw_connection, error_str) \/ In(kw_dns, error_str) THEN TelegramNetworkMsg
        ELSE IF In(kw_timeout, error_str) THEN TelegramTimeoutMsg
        ELSE IF In(kw_ssl, error_str) THEN TelegramSSLMsg
        ELSE TelegramUnknownMsg

\* bot.sendMessage(chat_id=TELEGRAM_CHAT_ID, text=msg, parse_mode="Markdown")
Message(msg) == [chat_id |-> TELEGRAM_CHAT_ID[1], text |-> msg, parse_mode |-> "Markdown"]

\* the credential check fails: ValueError, raised outside the try block
to_telegram_missing_credentials ==
    /\ pc = "to_telegram"
    /\ tg_args' = Append(tg_args, main_flow_arg(returned[1]))
    /\ missing_credentials(TELEGRAM_TOKEN, TELEGRAM_CHAT_ID)
    /\ out' = << Line("Error: Telegram credentials are missing.") >>
    /\ caught' = <<>>
    /\ raised' = <<[type |-> "ValueError", msg |-> MissingCredentialsMsg, context |-> <<>>]>>
    /\ pc' = "done"
    /\ flow_state' = main_flow_on_error
    /\ UNCHANGED <<TELEGRAM_TOKEN, TELEGRAM_CHAT_ID, attempts, delays, response, returned,
                   bot_sessions, send_attempts, sent>>

\* faulty variant: send_via_ptb() is called but never run, and success is reported
to_telegram_sends_not_awaited ==
    /\ pc = "to_telegram"
    /\ tg_args' = Append(tg_args, main_flow_arg(returned[1]))
    /\ ~missing_credentials(TELEGRAM_TOKEN, TELEGRAM_CHAT_ID)
    /\ out' = << Line("Success: Message sent to Telegram (via PTB)!") >>
    /\ caught' = <<>>
    /\ raised' = <<>>
    /\ pc' = "done"
    /\ flow_state' = "Completed"
    /\ UNCHANGED <<TELEGRAM_TOKEN, TELEGRAM_CHAT_ID, attempts, delays, response, returned,
                   bot_sessions, send_attempts, sent>>

\* asyncio.run(send_via_ptb()) returns
to_telegram_sends ==
    /\ pc = "to_telegram"
    /\ tg_args' = Append(tg_args, main_flow_arg(returned[1]))
    /\ ~missing_credentials(TELEGRAM_TOKEN, TELEGRAM_CHAT_ID)
    /\ bot_sessions' = bot_sessions + 1
    /\ send_attempts' = send_attempts + 1
    /\ sent' = Append(sent, Message(tg_args'[Len(tg_args')]))
    /\ out' = << Line("Sending message via Python-Telegram-Bot..."),
                 Line("Success: Message sent to Telegram (via PTB)!") >>
    /\ caught' = <<>>
    /\ raised' = <<>>
    /\ pc' = "done"
    /\ flow_state' = "Completed"
    /\ UNCHANGED <<TELEGRAM_TOKEN, TELEGRAM_CHAT_ID, attempts, delays, response, returned>>

\* asyncio.run(send_via_ptb()) raises; the chat may or may not have got the message
to_telegram_raises(e_str, delivered) ==
    /\ pc = "to_telegram"
    /\ tg_args' = Append(tg_args, main_flow_arg(returned[1]))
    /\ ~missing_credentials(TELEGRAM_TOKEN, TELEGRAM_CHAT_ID)
    /\ bot_sessions' = bot_sessions + 1
    /\ send_attempts' = send_attempts + 1
    /\ sent' = IF delivered THEN Append(sent, Message(tg_args'[Len(tg_args')])) ELSE sent
    /\ caught' = <<[task |-> "to_telegram", str |-> e_str]>>
    /\ LET safe_msg == to_telegram_safe_msg(e_str)
       IN  /\ out' = << Line("Sending message via Python-Telegram-Bot..."),
                        Line(safe_msg) >>
           \* raise inside the except block: the new exception's __context__ is e
           /\ raised' = <<[type |-> "Exception", msg |-> safe_msg, context |-> <<e_str>>]>>
    /\ pc' = "done"
    /\ flow_state' = main_flow_on_error
    /\ UNCHANGED <<TELEGRAM_TOKEN, TELEGRAM_CHAT_ID, attempts, delays, response, returned>>

(***************************************************************************)
(* The run.                                                                *)
(***************************************************************************)
Init ==
    /\ TELEGRAM_TOKEN \in EnvValues
    /\ TELEGRAM_CHAT_ID \in EnvValues
    /\ pc = "generate_quote"
    /\ attempts = 0
    /\ delays = <<>>
    /\ response = <<>>
    /\ returned = <<>>
    /\ tg_args = <<>>
    /\ bot_sessions = 0
    /\ send_attempts = 0
    /\ sent = <<>>
    /\ out = <<>>
    /\ caught = <<>>
    /\ raised = <<>>
    /\ flow_state = "Running"

Next ==
    \/ \E content \in Contents : generate_quote_returns(content)
    \/ \E e_str \in GeminiErrorTexts : generate_quote_raises(e_str)
    \/ retry_wait
    \/ to_telegram_missing_credentials
    \/ to_telegram_sends
    \/ \E e_str \in TelegramErrorTexts, delivered \in BOOLEAN :
           to_telegram_raises(e_str, delivered)

Spec == Init /\ [][Next]_vars

\* every backend call returns or raises, and the harness runs what is runnable
FairSpec == Spec /\ WF_vars(Next)

(***************************************************************************)
(* Properties.                                                             *)
(***************************************************************************)
\* an environment variable that is unset or empty
Absent(v) == v \in {<<>>, <<"">>}

HasSurroundingWhitespace(s) == s # <<>> /\ (s[1] \in Whitespace \/ s[Len(s)] \in Whitespace)

\* the failure caught by the most recent except block of the given task
CaughtIn(task) == caught # <<>> /\ caught[1].task = task

\* C1: to_telegram is not invoked before generate_quote has succeeded; once
\* it has, to_telegram is invoked exactly once, with exactly the value the
\* successful attempt returned.
C1_DispatchOnceAfterSuccess ==
    /\ returned = <<>> => tg_args = <<>>
    /\ tg_args # <<>> =>
           /\ returned # <<>>
           /\ Len(tg_args) = 1
           /\ tg_args[1] = returned[1]
    /\ (pc = "done" /\ returned # <<>>) => Len(tg_args) = 1

\* C1 witness: success on the 3rd attempt after two failures, then one dispatch
\* of the returned text.
C1_Witness ==
    /\ pc = "done"
    /\ attempts = 3
    /\ returned = <<CodeFearlessly>>
    /\ tg_args = <<CodeFearlessly>>

\* C2: when the initial attempt and all three retries of generate_quote have
\* failed, to_telegram was never invoked, no message was sent and the run is
\* in the failed state.
C2_NoDispatchOnGeneratorFailure ==
    (pc = "done" /\ returned = <<>>) =>
        /\ attempts = 4
        /\ tg_args = <<>>
        /\ bot_sessions = 0
        /\ send_attempts = 0
        /\ sent = <<>>
        /\ flow_state = "Failed"

\* C2 witness: the run has ended after four failed attempts, the last one a
\* refused connection.
C2_Witness ==
    /\ pc = "done"
    /\ attempts = 4
    /\ returned = <<>>
    /\ CaughtIn("generate_quote")
    /\ In(kw_connection, lower(caught[1].str))
    /\ raised[1].msg = GeminiNetworkMsg

\* C3: when to_telegram is invoked with the token or the chat id absent, it
\* fails with the missing-credentials ValueError; no Bot session was opened,
\* no send attempted, the error is none of the classified ones, and
\* to_telegram is not run again.
C3_MissingCredentialsFailFast ==
    ((Absent(TELEGRAM_TOKEN) \/ Absent(TELEGRAM_CHAT_ID)) /\ tg_args # <<>>) =>
        /\ Len(tg_args) = 1
        /\ bot_sessions = 0
        /\ send_attempts = 0
        /\ sent = <<>>
        /\ caught = <<>>
        /\ raised = <<[type |-> "ValueError", msg |-> MissingCredentialsMsg, context |-> <<>>]>>
        /\ raised[1].msg \notin TelegramMsgs
        /\ pc = "done"
        /\ flow_state = "Failed"

\* C3 witness: to_telegram ran with a token but an empty chat id.
C3_Witness ==
    /\ TELEGRAM_TOKEN = <<"set">>
    /\ TELEGRAM_CHAT_ID = <<"">>
    /\ Len(tg_args) = 1
    /\ raised # <<>>
    /\ raised[1].type = "ValueError"

\* a printed line shows the text: the text is part of what the line interpolates
Shows(line, text) == text # <<>> /\ In(text, line.arg)

\* an exception carries the text: the text is part of the exception chained to it
Carries(exc, text) == text # <<>> /\ exc.context # <<>> /\ In(text, exc.context[1])

\* C4 (as claimed): after a failure inside generate_quote or to_telegram the
\* printed message and the message of the raised error are one of the
\* component's four fixed strings, and the raw error text is neither in a
\* printed line nor carried by the raised error.
C4_RawErrorNeverExposed ==
    caught # <<>> =>
        /\ raised # <<>>
        /\ raised[1].msg \in (IF caught[1].task = "generate_quote"
                              THEN GeminiMsgs ELSE TelegramMsgs)
        /\ out[Len(out)] = Line(raised[1].msg)
        /\ \A i \in 1..Len(out) : ~Shows(out[i], caught[1].str)
        /\ ~Carries(raised[1], caught[1].str)

\* The part of C4 that the code does keep: what is printed, and the message
\* of the raised error, are fixed strings that show nothing of the raw text.
SafeMsgPrintedAndRaised ==
    caught # <<>> =>
        /\ raised # <<>>
        /\ raised[1].msg \in (IF caught[1].task = "generate_quote"
                              THEN GeminiMsgs ELSE TelegramMsgs)
        /\ out[Len(out)] = Line(raised[1].msg)
        /\ \A i \in 1..Len(out) : ~Shows(out[i], caught[1].str)

\* C5 (as claimed): an error text of the send that contains "timeout" is
\* classified as the timeout error, one that contains "ssl" as the TLS
\* error, one that contains "connection" or "dns" as the connection error.
C5_Original ==
    CaughtIn("to_telegram") =>
        LET error_str == lower(caught[1].str)
        IN  /\ In(kw_timeout, error_str) => raised[1].msg = TelegramTimeoutMsg
            /\ In(kw_ssl, error_str) => raised[1].msg = TelegramSSLMsg
            /\ (In(kw_connection, error_str) \/ In(kw_dns, error_str)) =>
                   raised[1].msg = TelegramNetworkMsg

\* C5 (amended): "connection" or "dns" gives the connection error; "timeout"
\* gives the timeout error when neither of those is in the text; "ssl" gives
\* the TLS error when none of "connection", "dns", "timeout" is in the text.
C5_DispatcherClassification ==
    CaughtIn("to_telegram") =>
        LET error_str == lower(caught[1].str)
            conn == In(kw_connection, error_str) \/ In(kw_dns, error_str)
        IN  /\ conn => raised[1].msg = TelegramNetworkMsg
            /\ (In(kw_timeout, error_str) /\ ~conn) => raised[1].msg = TelegramTimeoutMsg
            /\ (In(kw_ssl, error_str) /\ ~In(kw_timeout, error_str) /\ ~conn) =>
                   raised[1].msg = TelegramSSLMsg

\* C5 witness: a text with both "connection" and "timeout" was classified as
\* the connection error.
C5_Witness ==
    /\ CaughtIn("to_telegram")
    /\ In(kw_timeout, lower(caught[1].str))
    /\ In(kw_connection, lower(caught[1].str))
    /\ raised[1].msg = TelegramNetworkMsg

\* C6 (as claimed): an error text of the generator's backend call that
\* contains "429" or "quota" is classified as the quota error.
C6_Original ==
    CaughtIn("generate_quote") =>
        LET error_str == lower(caught[1].str)
        IN  (In(kw_429, error_str) \/ In(kw_quota, error_str)) =>
                raised[1].msg = GeminiQuotaMsg

\* C6 (amended): an error text that contains "429" or "quota" and neither
\* "401" nor "api_key" is classified as the quota error.
C6_QuotaClassification ==
    CaughtIn("generate_quote") =>
        LET error_str == lower(caught[1].str)
        IN  ( /\ In(kw_429, error_str) \/ In(kw_quota, error_str)
              /\ ~In(kw_401, error_str)
              /\ ~In(kw_api_key, error_str) ) =>
                /\ raised[1].msg = GeminiQuotaMsg
                /\ out[Len(out)] = Line(GeminiQuotaMsg)

\* C6 witness: a text whose only known word is "Quota" was classified as the
\* quota error.
C6_Witness ==
    /\ CaughtIn("generate_quote")
    /\ caught[1].str = <<"Q","u","o","t","a">> \o frag_neutral
    /\ raised[1].msg = GeminiQuotaMsg

\* C7: an error text of the generator's backend call that contains "401" or
\* "api_key", in any case and whatever else it contains, is classified as the
\* authentication error: the raised message and the printed message are the
\* fixed authentication string.
C7_AuthClassification ==
    CaughtIn("generate_quote") =>
        LET error_str == lower(caught[1].str)
        IN  (In(kw_401, error_str) \/ In(kw_api_key, error_str)) =>
                /\ raised[1].type = "Exception"
                /\ raised[1].msg = GeminiAuthMsg
                /\ out[Len(out)] = Line(GeminiAuthMsg)

\* C7 witness: a text with "429" followed by "API_KEY" was classified as the
\* authentication error.
C7_Witness ==
    /\ CaughtIn("generate_quote")
    /\ caught[1].str = kw_429 \o <<"A","P","I","_","K","E","Y">>
    /\ raised[1].msg = GeminiAuthMsg

\* C8 (as claimed): the value generate_quote returns, and the text sent, is
\* the response content with surrounding whitespace removed.
C8_Original ==
    returned # <<>> =>
        /\ returned[1] = strip(response[1])
        /\ ~HasSurroundingWhitespace(returned[1])
        /\ \A i \in 1..Len(sent) : sent[i].text = strip(response[1])

\* C8 (amended): the value generate_quote returns, and the text sent, is the
\* response content unchanged, surrounding whitespace included.
C8_ReturnsContentUnchanged ==
    returned # <<>> =>
        /\ returned[1] = response[1]
        /\ \A i \in 1..Len(tg_args) : tg_args[i] = response[1]
        /\ \A i \in 1..Len(sent) : sent[i].text = response[1]

\* C8 witness: a content with surrounding whitespace was returned and sent
\* as it is.
C8_Witness ==
    /\ response # <<>>
    /\ HasSurroundingWhitespace(response[1])
    /\ returned = response
    /\ Len(sent) = 1
    /\ sent[1].text = response[1]

C10_TerminatesWithOneMessage ==
    /\ <>(pc = "done" /\ flow_state \in {"Completed", "Failed"})
    /\ [](/\ Len(sent) <= 1
          /\ Len(tg_args) <= 1
          /\ flow_state = "Completed" => (pc = "done" /\ Len(sent) = 1)
          /\ pc = "done" <=> flow_state # "Running")
    /\ [][pc = "done" => pc' = "done"]_vars

\* C10 witness: a run that ended succeeded, with its one message sent.
C10_Witness ==
    /\ pc = "done"
    /\ flow_state = "Completed"
    /\ Len(sent) = 1
    /\ sent[1].parse_mode = "Markdown"

====
